---- MODULE Spec2Model ----
(***************************************************************************)
(* Fraction<Type> (src/src/Fraction.h): a numerator/denominator pair over  *)
(* a signed integral Type, its constructors, compound arithmetic           *)
(* operators, simplify(), the comparison operators, and the free function  *)
(* to_Fraction that turns a floating-point value into a Fraction.          *)
(*                                                                         *)
(* Type is modelled as a signed integer type of reduced range TMin..TMax.  *)
(* Signed overflow is undefined in C++; an operation whose operands,       *)
(* intermediate values or results leave the range is outside the modelled  *)
(* domain, so every arithmetic action is enabled only when all its         *)
(* intermediate values fit.  Integer division by zero is undefined as      *)
(* well; it is modelled as either a trap (crashed) or an arbitrary value   *)
(* of Type for the quotient.                                               *)
(***************************************************************************)
EXTENDS Integers, Sequences, FiniteSets, TLC

VARIABLES a, b, ret, err, crashed, cf, bin

vars == <<a, b, ret, err, crashed, cf, bin>>

(***************************************************************************)
(* Bounds of the model.                                                    *)
(***************************************************************************)
\* largest value of the modelled Type
TMax == 5
\* constructor arguments and integral scalar operands are drawn from -MaxInput..MaxInput
MaxInput == 2

TMin == -TMax - 1
T == TMin..TMax
InputVals == -MaxInput..MaxInput

Abs(x) == IF x < 0 THEN -x ELSE x
Min(x, y) == IF y < x THEN y ELSE x
AllInT(S) == \A v \in S : v \in T

\* C++ integer division: the quotient is truncated towards zero (y # 0)
CDiv(x, y) ==
    LET q == Abs(x) \div Abs(y)
    IN  IF (x < 0) # (y < 0) THEN -q ELSE q

Frac(n, d) == [n |-> n, d |-> d]
\* the default-constructed Fraction: mNumerator{0}, mDenominator{1}
DefaultFraction == Frac(0, 1)

(***************************************************************************)
(* Fraction::GDC: linear descent from min(a, b); the loop body runs only   *)
(* while tResult > 0, so a non-positive minimum is returned as it is.      *)
(***************************************************************************)
RECURSIVE GDCLoop(_, _, _)
GDCLoop(x, y, tResult) ==
    IF tResult > 0
    THEN IF x % tResult = 0 /\ y % tResult = 0
         THEN tResult
         ELSE GDCLoop(x, y, tResult - 1)
    ELSE tResult

GDC(x, y) == GDCLoop(x, y, Min(x, y))

\* Fraction::LCM(a, b); GDC(x, y) # 0 whenever x # 0 and y # 0
LCM(x, y) ==
    IF x = 0 \/ y = 0 THEN 0 ELSE CDiv(Abs(x * y), GDC(x, y))

LCMFits(x, y) == x = 0 \/ y = 0 \/ AllInT({x * y, Abs(x * y)})

(***************************************************************************)
(* Constructor Fraction(xNumerator, mDenominator = 1): the members are     *)
(* initialised from the arguments and the body throws                      *)
(* std::invalid_argument when the denominator is 0.                        *)
(***************************************************************************)
\* the check written as "not positive" instead of "zero"
CtorThrowsNotPositive(n, d) == d <= 0
CtorThrows(n, d) == d = 0
CtorValue(n, d) == Frac(n, d)
\* the default argument of the second constructor parameter
DefaultDenominator == 1

(***************************************************************************)
(* simplify(): both members are divided by GDC(mNumerator, mDenominator).  *)
(***************************************************************************)
SimplifyDivZero(x) == GDC(x.n, x.d) = 0
Simplified(x) ==
    LET tGDC == GDC(x.n, x.d)
    IN  Frac(CDiv(x.n, tGDC), CDiv(x.d, tGDC))

(***************************************************************************)
(* operator+=(const Fraction&) and operator-=(const Fraction&).            *)
(***************************************************************************)
\* tLCM / mDenominator or tLCM / xOther.mDenominator divides by zero
AddSubDivZero(x, y) == x.d # y.d /\ (x.d = 0 \/ y.d = 0)

PlusEq(x, y) ==
    IF x.d # y.d
    THEN LET tLCM == LCM(x.d, y.d)
         IN  Frac((x.n * CDiv(tLCM, x.d)) + (y.n * CDiv(tLCM, y.d)), tLCM)
    ELSE Frac(x.n + y.n, x.d)

MinusEq(x, y) ==
    IF x.d # y.d
    THEN LET tLCM == LCM(x.d, y.d)
         IN  Frac((x.n * CDiv(tLCM, x.d)) - (y.n * CDiv(tLCM, y.d)), tLCM)
    ELSE Frac(x.n - y.n, x.d)

\* every value the operator computes stays inside Type
PlusEqFits(x, y) ==
    IF x.d # y.d
    THEN /\ LCMFits(x.d, y.d)
         /\ LET tLCM == LCM(x.d, y.d)
            IN  AllInT({ tLCM, x.n * CDiv(tLCM, x.d), y.n * CDiv(tLCM, y.d),
                         PlusEq(x, y).n })
    ELSE x.n + y.n \in T

MinusEqFits(x, y) ==
    IF x.d # y.d
    THEN /\ LCMFits(x.d, y.d)
         /\ LET tLCM == LCM(x.d, y.d)
            IN  AllInT({ tLCM, x.n * CDiv(tLCM, x.d), y.n * CDiv(tLCM, y.d),
                         MinusEq(x, y).n })
    ELSE x.n - y.n \in T

(***************************************************************************)
(* operator*=(const Fraction&) and operator/=(const Fraction&).            *)
(***************************************************************************)
TimesEq(x, y) == Frac(x.n * y.n, x.d * y.d)
\* the division written without taking the reciprocal of the operand
DivEqNoReciprocal(x, y) == Frac(x.n * y.n, x.d * y.d)
DivEq(x, y) == Frac(x.n * y.d, x.d * y.n)
MulFits(x, y) == AllInT({x.n * y.n, x.d * y.d})
DivFits(x, y) == AllInT({x.n * y.d, x.d * y.n})

(***************************************************************************)
(* The same operators called with the receiver as the operand: xOther is   *)
(* a reference to *this, so every read of xOther sees what the statements  *)
(* before it have stored.  += and -= find equal denominators and take the  *)
(* else branch; /= reads xOther.mNumerator after mNumerator was updated.   *)
(***************************************************************************)
PlusEqAliased(x) == Frac(x.n + x.n, x.d)
MinusEqAliased(x) == Frac(x.n - x.n, x.d)
TimesEqAliased(x) ==
    LET n1 == x.n * x.n
    IN  Frac(n1, x.d * x.d)
DivEqAliased(x) ==
    LET n1 == x.n * x.d
    IN  Frac(n1, x.d * n1)

(***************************************************************************)
(* The overloads taking a const Type&: += and -= build Fraction(xOther, 1) *)
(* and delegate; *= scales the numerator, /= scales the denominator.       *)
(***************************************************************************)
TimesEqType(x, k) == Frac(x.n * k, x.d)
DivEqType(x, k) == Frac(x.n, x.d * k)

(***************************************************************************)
(* operator<=>: both ratios are computed as long double quotients and      *)
(* compared.  A long double keeps MantBits significant bits; the quotient  *)
(* is rounded to nearest, ties to even.  Type has BitLen(-TMin) magnitude  *)
(* bits, one fewer than MantBits, as int64_t has against the 64-bit        *)
(* significand of the x87 long double, so every value of Type converts     *)
(* exactly.  A quotient is represented by the integer quotient * 2^ScaleBits.*)
(***************************************************************************)
MantBits == 4

Pow2(k) == 2^k

RECURSIVE BitLen(_)
BitLen(x) == IF x = 0 THEN 0 ELSE 1 + BitLen(x \div 2)

ScaleBits == MantBits - 1 + BitLen(-TMin)

RoundHalfEven(x, y) ==
    LET q == x \div y
        r == x % y
    IN  IF 2 * r < y THEN q
        ELSE IF 2 * r > y THEN q + 1
        ELSE IF q % 2 = 0 THEN q ELSE q + 1

\* the exponent of the last place: the least u with x / (y * 2^u) < 2^MantBits
RECURSIVE LastPlace(_, _, _)
LastPlace(x, y, u) ==
    IF x < y * Pow2(MantBits + u) THEN u ELSE LastPlace(x, y, u + 1)

\* static_cast<long double>(n) / d, for d # 0
LongDoubleQuot(n, d) ==
    IF n = 0 THEN 0
    ELSE LET x == Abs(n) * Pow2(ScaleBits)
             y == Abs(d)
             u == LastPlace(x, y, 0)
             mag == RoundHalfEven(x, y * Pow2(u)) * Pow2(u)
         IN  IF (n < 0) # (d < 0) THEN -mag ELSE mag

Spaceship(x, y) ==
    IF x.d = 0 \/ y.d = 0
    THEN "equal"
    ELSE LET lhsRatio == LongDoubleQuot(x.n, x.d)
             rhsRatio == LongDoubleQuot(y.n, y.d)
         IN  IF lhsRatio < rhsRatio THEN "less"
             ELSE IF lhsRatio > rhsRatio THEN "greater"
             ELSE "equal"

\* equality of the values: operator== comparing by cross-multiplication
OperatorEqByValue(x, y) == x.n * y.d = y.n * x.d

\* operator==
OperatorEq(x, y) == x.d = y.d /\ x.n = y.n

(***************************************************************************)
(* to_Fraction(xValue, xTolerance).  A floating-point value is modelled    *)
(* by the rational it holds: xValue is sign * p / q and xTolerance is      *)
(* en / ed, with q > 0 and ed > 0; the loop variable x is xn / xd, and     *)
(* xd = 0 stands for the infinity that 1.0 / 0.0 yields.  The arithmetic   *)
(* of the loop is carried out exactly, except that the product             *)
(* xValue * epsilon underflows as Arg_t makes it: the tolerances range     *)
(* down to the smallest positive value of Arg_t.                           *)
(***************************************************************************)
MaxTolBits == 8
DenormMinBits == MaxTolBits

\* the check written with < instead of <=
ToleranceNegative(en, ed) == en < 0
\* xTolerance <= 0
ToleranceInvalid(en, ed) == en <= 0

\* xValue < xTolerance && xValue > -xTolerance
NearZero(sign, p, q, en, ed) ==
    /\ sign * p * ed < en * q
    /\ sign * p * ed > -en * q

\* the test written against an absolute error: ... < epsilon
ConvergedAbsolute(h1, k1, p, q, en, ed) ==
    Abs(h1 * q - p * k1) * ed < k1 * q * en
\* xValue * epsilon.  Arg_t has a smallest positive value, 2^-DenormMinBits;
\* a product below it rounds to the nearer of 0 and that value, a tie to 0
\* (round to nearest, ties to even).  Every other product is kept exactly.
TolProduct(p, q, en, ed) ==
    IF 2 * p * en * Pow2(DenormMinBits) <= q * ed
    THEN [n |-> 0, d |-> 1]
    ELSE IF p * en * Pow2(DenormMinBits) < q * ed
    THEN [n |-> 1, d |-> Pow2(DenormMinBits)]
    ELSE [n |-> p * en, d |-> q * ed]

\* std::abs(h1 / k1 - xValue) < xValue * epsilon, for k1 > 0
Converged(h1, k1, p, q, en, ed) ==
    LET t == TolProduct(p, q, en, ed)
    IN  Abs(h1 * q - p * k1) * t.d < t.n * k1 * q

\* the locals on entry to the loop
LoopEntry(sign, p, q, en, ed) ==
    [pc |-> "loop", sign |-> sign, p |-> p, q |-> q, en |-> en, ed |-> ed,
     h1 |-> 1, h2 |-> 0, k1 |-> 0, k2 |-> 1, xn |-> p, xd |-> q, it |-> 0]

\* one pass through the body of while (true); pc becomes "return" when the
\* convergence test succeeds.  floor, the products and the quotient of an
\* infinite x are infinite or NaN, the test then fails for ever: "diverged".
LoopBody(f) ==
    IF f.xd = 0
    THEN [f EXCEPT !.pc = "diverged"]
    ELSE LET fl == f.xn \div f.xd
             nh1 == fl * f.h1 + f.h2
             nk1 == fl * f.k1 + f.k2
         IN  [f EXCEPT !.h1 = nh1, !.h2 = f.h1, !.k1 = nk1, !.k2 = f.k1,
                       !.xn = f.xd, !.xd = f.xn % f.xd, !.it = f.it + 1,
                       !.pc = IF Converged(nh1, nk1, f.p, f.q, f.en, f.ed)
                              THEN "return" ELSE "loop"]

(***************************************************************************)
(* State.  a and b are two Fraction objects.  ret records the last call:   *)
(* its name, the object it was called on, that object before the call      *)
(* (kept when simplify() or an operator taking a Fraction returns, the     *)
(* default 0/1 otherwise), the constructor's arguments (the default 0/1    *)
(* for every other call) and how it returned.  err is the exception that left the    *)
(* last call; crashed is set once a division by zero has trapped; cf is    *)
(* the frame of a to_Fraction call; bin holds the floating-point operand   *)
(* of the last non-mutating operator and the Fraction it returned.         *)
(***************************************************************************)
Slots == {"a", "b"}
Obj(s) == IF s = "a" THEN a ELSE b
SetObj(s, v) == IF s = "a" THEN a' = v /\ b' = b ELSE b' = v /\ a' = a

Call(op, rcv, pre, arg, res) ==
    [op |-> op, rcv |-> rcv, pre |-> pre, arg |-> arg, res |-> res]
NoCall == Call("none", "a", DefaultFraction, DefaultFraction, "none")

\* no friend operator has been called: no floating-point operand, and the
\* returned Fraction is the default one
NoScalar == [sign |-> 1, p |-> 0, q |-> 1]
IdleBin == [s |-> NoScalar, val |-> DefaultFraction]

\* no to_Fraction call has been made: the locals hold their initial values
IdleFrame ==
    [pc |-> "idle", sign |-> 1, p |-> 0, q |-> 1, en |-> 1, ed |-> 1,
     h1 |-> 1, h2 |-> 0, k1 |-> 0, k2 |-> 1, xn |-> 0, xd |-> 1, it |-> 0]

Init ==
    /\ a = DefaultFraction
    /\ b = DefaultFraction
    /\ ret = NoCall
    /\ err = "none"
    /\ crashed = FALSE
    /\ cf = IdleFrame
    /\ bin = IdleBin

\* an undefined integer division: the program traps, or the quotients are
\* arbitrary values of Type
Undefined(s, op, results) ==
    /\ ret' = Call(op, s, DefaultFraction, DefaultFraction, "undefined")
    /\ err' = "none"
    /\ \/ /\ crashed' = TRUE
          /\ UNCHANGED <<a, b>>
       \/ /\ crashed' = FALSE
          /\ \E v \in results : SetObj(s, v)

\* the call returns normally and leaves v in the object s
Returns(s, op, pre, arg, v) ==
    /\ ret' = Call(op, s, pre, arg, "ok")
    /\ err' = "none"
    /\ crashed' = FALSE
    /\ SetObj(s, v)

\* the constructor throws: the temporary is never assigned to s
Throws(s, op, arg) ==
    /\ ret' = Call(op, s, DefaultFraction, arg, "throw")
    /\ err' = "invalid_argument"
    /\ UNCHANGED <<a, b, crashed>>

\* s = Fraction<Type>{}: numerator 0, denominator 1
DefaultConstruct(s) ==
    /\ ~crashed
    /\ Returns(s, "Fraction()", DefaultFraction, DefaultFraction, DefaultFraction)
    /\ UNCHANGED <<cf, bin>>

\* s = Fraction(n, d)
Construct(s, n, d) ==
    /\ ~crashed
    /\ IF CtorThrows(n, d)
       THEN Throws(s, "Fraction", Frac(n, d))
       ELSE Returns(s, "Fraction", DefaultFraction, Frac(n, d), CtorValue(n, d))
    /\ UNCHANGED <<cf, bin>>

\* s = Fraction(n): the denominator takes its default argument
ConstructDefaulted(s, n) ==
    /\ ~crashed
    /\ IF CtorThrows(n, DefaultDenominator)
       THEN Throws(s, "Fraction1", Frac(n, DefaultDenominator))
       ELSE Returns(s, "Fraction1", DefaultFraction, Frac(n, DefaultDenominator),
                    CtorValue(n, DefaultDenominator))
    /\ UNCHANGED <<cf, bin>>

\* r = o: the defaulted copy assignment copies both members
CopyAssign(r, o) ==
    /\ ~crashed
    /\ Returns(r, "=", DefaultFraction, DefaultFraction, Obj(o))
    /\ UNCHANGED <<cf, bin>>

\* s.simplify()
Simplify(s) ==
    /\ ~crashed
    /\ IF SimplifyDivZero(Obj(s))
       THEN Undefined(s, "simplify", [n : T, d : T])
       ELSE Returns(s, "simplify", Obj(s), DefaultFraction, Simplified(Obj(s)))
    /\ UNCHANGED <<cf, bin>>

\* r += o
PlusEqFraction(r, o) ==
    /\ ~crashed
    /\ IF AddSubDivZero(Obj(r), Obj(o))
       THEN Undefined(r, "+=", [n : T, d : {0}])
       ELSE /\ PlusEqFits(Obj(r), Obj(o))
            /\ Returns(r, "+=", Obj(r), DefaultFraction, PlusEq(Obj(r), Obj(o)))
    /\ UNCHANGED <<cf, bin>>

\* r -= o
MinusEqFraction(r, o) ==
    /\ ~crashed
    /\ IF AddSubDivZero(Obj(r), Obj(o))
       THEN Undefined(r, "-=", [n : T, d : {0}])
       ELSE /\ MinusEqFits(Obj(r), Obj(o))
            /\ Returns(r, "-=", Obj(r), DefaultFraction, MinusEq(Obj(r), Obj(o)))
    /\ UNCHANGED <<cf, bin>>

\* r *= o
TimesEqFraction(r, o) ==
    /\ ~crashed
    /\ MulFits(Obj(r), Obj(o))
    /\ Returns(r, "*=", Obj(r), DefaultFraction, TimesEq(Obj(r), Obj(o)))
    /\ UNCHANGED <<cf, bin>>

\* r /= o
DivEqFraction(r, o) ==
    /\ ~crashed
    /\ DivFits(Obj(r), Obj(o))
    /\ Returns(r, "/=", Obj(r), DefaultFraction, DivEq(Obj(r), Obj(o)))
    /\ UNCHANGED <<cf, bin>>

\* r += r
PlusEqSelf(r) ==
    /\ ~crashed
    /\ AllInT({PlusEqAliased(Obj(r)).n})
    /\ Returns(r, "+=self", Obj(r), DefaultFraction, PlusEqAliased(Obj(r)))
    /\ UNCHANGED <<cf, bin>>

\* r -= r
MinusEqSelf(r) ==
    /\ ~crashed
    /\ Returns(r, "-=self", Obj(r), DefaultFraction, MinusEqAliased(Obj(r)))
    /\ UNCHANGED <<cf, bin>>

\* r *= r
TimesEqSelf(r) ==
    /\ ~crashed
    /\ AllInT({TimesEqAliased(Obj(r)).n, TimesEqAliased(Obj(r)).d})
    /\ Returns(r, "*=self", Obj(r), DefaultFraction, TimesEqAliased(Obj(r)))
    /\ UNCHANGED <<cf, bin>>

\* r /= r
DivEqSelf(r) ==
    /\ ~crashed
    /\ AllInT({DivEqAliased(Obj(r)).n, DivEqAliased(Obj(r)).d})
    /\ Returns(r, "/=self", Obj(r), DefaultFraction, DivEqAliased(Obj(r)))
    /\ UNCHANGED <<cf, bin>>

\* r += k: *this += Fraction<Type>(k, 1)
PlusEqT(r, k) ==
    /\ ~crashed
    /\ IF AddSubDivZero(Obj(r), CtorValue(k, 1))
       THEN Undefined(r, "+=T", [n : T, d : {0}])
       ELSE /\ PlusEqFits(Obj(r), CtorValue(k, 1))
            /\ Returns(r, "+=T", DefaultFraction, DefaultFraction,
                       PlusEq(Obj(r), CtorValue(k, 1)))
    /\ UNCHANGED <<cf, bin>>

\* r -= k: *this -= Fraction<Type>(k, 1)
MinusEqT(r, k) ==
    /\ ~crashed
    /\ IF AddSubDivZero(Obj(r), CtorValue(k, 1))
       THEN Undefined(r, "-=T", [n : T, d : {0}])
       ELSE /\ MinusEqFits(Obj(r), CtorValue(k, 1))
            /\ Returns(r, "-=T", DefaultFraction, DefaultFraction,
                       MinusEq(Obj(r), CtorValue(k, 1)))
    /\ UNCHANGED <<cf, bin>>

\* r *= k
TimesEqT(r, k) ==
    /\ ~crashed
    /\ TimesEqType(Obj(r), k).n \in T
    /\ Returns(r, "*=T", DefaultFraction, DefaultFraction, TimesEqType(Obj(r), k))
    /\ UNCHANGED <<cf, bin>>

\* r /= k
DivEqT(r, k) ==
    /\ ~crashed
    /\ DivEqType(Obj(r), k).d \in T
    /\ Returns(r, "/=T", DefaultFraction, DefaultFraction, DivEqType(Obj(r), k))
    /\ UNCHANGED <<cf, bin>>

Next ==
    \/ DefaultConstruct("a")
    \/ \E n \in InputVals, d \in InputVals : Construct("a", n, d)
    \/ \E n \in InputVals, d \in InputVals : Construct("b", n, d)
    \/ \E n \in InputVals : ConstructDefaulted("a", n)
    \/ CopyAssign("a", "b")
    \/ Simplify("a")
    \/ PlusEqFraction("a", "b")
    \/ MinusEqFraction("a", "b")
    \/ TimesEqFraction("a", "b")
    \/ DivEqFraction("a", "b")
    \/ \E k \in InputVals : PlusEqT("a", k)
    \/ \E k \in InputVals : MinusEqT("a", k)
    \/ \E k \in InputVals : TimesEqT("a", k)
    \/ \E k \in InputVals : DivEqT("a", k)

Spec == Init /\ [][Next]_vars

(***************************************************************************)
(* The compound operators called with the receiver as their operand, on    *)
(* an object holding any Fraction the constructor can leave.               *)
(***************************************************************************)
InitAlias ==
    /\ a \in [n : T, d : T \ {0}]
    /\ b = DefaultFraction
    /\ ret = NoCall
    /\ err = "none"
    /\ crashed = FALSE
    /\ cf = IdleFrame
    /\ bin = IdleBin

NextAlias ==
    \/ PlusEqSelf("a")
    \/ MinusEqSelf("a")
    \/ TimesEqSelf("a")
    \/ DivEqSelf("a")

SpecAlias == InitAlias /\ [][NextAlias]_vars

(***************************************************************************)
(* The comparison operators, applied to two objects holding any pair of    *)
(* constructible Fractions; r /= 0 brings in the objects whose denominator *)
(* is 0.                                                                   *)
(***************************************************************************)
\* r <=> o
CompareThreeWay(r, o) ==
    /\ ~crashed
    /\ ret' = Call("<=>", r, DefaultFraction, DefaultFraction,
                   Spaceship(Obj(r), Obj(o)))
    /\ err' = "none"
    /\ UNCHANGED <<a, b, crashed, cf, bin>>

\* r == o
CompareEqual(r, o) ==
    /\ ~crashed
    /\ ret' = Call("==", r, DefaultFraction, DefaultFraction,
                   IF OperatorEq(Obj(r), Obj(o)) THEN "true" ELSE "false")
    /\ err' = "none"
    /\ UNCHANGED <<a, b, crashed, cf, bin>>

InitCmp ==
    /\ a \in [n : T, d : T \ {0}]
    /\ b \in [n : T, d : T \ {0}]
    /\ ret = NoCall
    /\ err = "none"
    /\ crashed = FALSE
    /\ cf = IdleFrame
    /\ bin = IdleBin

NextCmp ==
    \/ CompareThreeWay("a", "b")
    \/ CompareEqual("a", "b")
    \/ \E k \in InputVals : DivEqT("a", k)
    \/ \E k \in InputVals : DivEqT("b", k)

SpecCmp == InitCmp /\ [][NextCmp]_vars

(***************************************************************************)
(* a = to_Fraction<Arg_t, Integral_t>(xValue, xTolerance), one call per    *)
(* behaviour.  The values of Arg_t are the rationals sign * p / q with     *)
(* p, q <= MaxValue, the tolerances are en / 2^j; Integral_t holds         *)
(* IntMin..IntMax, and a call whose result does not fit is not modelled.   *)
(***************************************************************************)
MaxValue == 12
MaxTolNum == 2
IntMax == MaxValue
IntMin == -IntMax - 1

ToFractionCall(sign, p, q, en, ed) ==
    /\ ~crashed
    /\ cf.pc = "idle"
    /\ UNCHANGED bin
    /\ IF ToleranceInvalid(en, ed)
       THEN /\ cf' = [LoopEntry(sign, p, q, en, ed) EXCEPT !.pc = "threw"]
            /\ ret' = Call("to_Fraction", "a", DefaultFraction, DefaultFraction, "throw")
            /\ err' = "invalid_argument"
            /\ UNCHANGED <<a, b, crashed>>
       ELSE IF NearZero(sign, p, q, en, ed)
       THEN /\ cf' = [LoopEntry(sign, p, q, en, ed) EXCEPT !.pc = "done"]
            /\ Returns("a", "to_Fraction", DefaultFraction, DefaultFraction,
                    CtorValue(0, 1))
       ELSE /\ cf' = LoopEntry(sign, p, q, en, ed)
            /\ UNCHANGED <<a, b, ret, err, crashed>>

ToFractionLoop ==
    /\ ~crashed
    /\ cf.pc = "loop"
    /\ UNCHANGED bin
    /\ LET f == LoopBody(cf)
       IN  IF f.pc = "return"
           THEN /\ f.sign * f.h1 \in IntMin..IntMax
                /\ f.k1 \in IntMin..IntMax
                /\ cf' = [f EXCEPT !.pc = "done"]
                /\ Returns("a", "to_Fraction", DefaultFraction, DefaultFraction,
                           CtorValue(f.sign * f.h1, f.k1))
           ELSE /\ cf' = f
                /\ UNCHANGED <<a, b, ret, err, crashed>>

NextConv ==
    \/ /\ cf.pc = "idle"
       /\ \E sign \in {-1, 1}, p \in 0..MaxValue, q \in 1..MaxValue,
             en \in -1..MaxTolNum, j \in 0..MaxTolBits :
               ToFractionCall(sign, p, q, en, Pow2(j))
    \/ ToFractionLoop

SpecConv == Init /\ [][NextConv]_vars

(***************************************************************************)
(* The overloads taking a floating-point operand, and the non-mutating     *)
(* friend operators.  A floating-point operand s is the rational           *)
(* s.sign * s.p / s.q; to_Fraction<Arg_t, Type>(s) is called with its      *)
(* default tolerance, the machine epsilon 2^-EpsilonBits of Arg_t.         *)
(***************************************************************************)
\* largest numerator and denominator of a floating-point operand
MaxScalar == 2
EpsilonBits == 4

Scalars == [sign : {-1, 1}, p : 0..MaxScalar, q : 1..MaxScalar]

\* the loop of to_Fraction run until it returns (or will never return)
RECURSIVE RunLoop(_)
RunLoop(f) == IF f.pc = "loop" THEN RunLoop(LoopBody(f)) ELSE f

\* to_Fraction<Arg_t, Type>(s) returns, and its result fits Type
ToFractionReturns(s) ==
    \/ NearZero(s.sign, s.p, s.q, 1, Pow2(EpsilonBits))
    \/ LET f == RunLoop(LoopEntry(s.sign, s.p, s.q, 1, Pow2(EpsilonBits)))
       IN  f.pc = "return" /\ AllInT({f.sign * f.h1, f.k1})

\* the Fraction that to_Fraction<Arg_t, Type>(s) returns
ToFraction(s) ==
    IF NearZero(s.sign, s.p, s.q, 1, Pow2(EpsilonBits))
    THEN CtorValue(0, 1)
    ELSE LET f == RunLoop(LoopEntry(s.sign, s.p, s.q, 1, Pow2(EpsilonBits)))
         IN  CtorValue(f.sign * f.h1, f.k1)

\* operator+=, -=, *=, /= (const Arg_t&): convert, then the Fraction overload
PlusEqFloat(x, s) == PlusEq(x, ToFraction(s))
MinusEqFloat(x, s) == MinusEq(x, ToFraction(s))
TimesEqFloat(x, s) == TimesEq(x, ToFraction(s))
DivEqFloat(x, s) == DivEq(x, ToFraction(s))

\* operator+, -, *, / (Fraction lhs, const Fraction& rhs): lhs is a copy
OperatorPlus(lhs, rhs) == PlusEq(lhs, rhs)
OperatorMinus(lhs, rhs) == MinusEq(lhs, rhs)
OperatorTimes(lhs, rhs) == TimesEq(lhs, rhs)
OperatorDiv(lhs, rhs) == DivEq(lhs, rhs)

\* operator+, -, *, / (Fraction lhs, const Arg_t& rhs): lhs is a copy
OperatorPlusFloat(lhs, rhs) == PlusEqFloat(lhs, rhs)
OperatorMinusFloat(lhs, rhs) == MinusEqFloat(lhs, rhs)
OperatorTimesFloat(lhs, rhs) == TimesEqFloat(lhs, rhs)
OperatorDivFloat(lhs, rhs) == DivEqFloat(lhs, rhs)

\* operator+ and operator* (const Arg_t& lhs, Fraction rhs): rhs op= lhs
FloatPlusOperator(lhs, rhs) == PlusEqFloat(rhs, lhs)
FloatTimesOperator(lhs, rhs) == TimesEqFloat(rhs, lhs)

\* operator- written as operator+ is, rhs -= lhs: the operands change places
FloatMinusCommuted(lhs, rhs) == MinusEqFloat(rhs, lhs)
\* operator- and operator/ (const Arg_t& lhs, rhs): tTemp = to_Fraction(lhs);
\* tTemp op= rhs
FloatMinusOperator(lhs, rhs) == MinusEq(ToFraction(lhs), rhs)
FloatDivOperator(lhs, rhs) == DivEq(ToFraction(lhs), rhs)

(***************************************************************************)
(* Calls of the friend operators on the objects a and b and a             *)
(* floating-point operand s, one call per behaviour.  The operands are     *)
(* passed by value or by const reference: a and b are never assigned.      *)
(***************************************************************************)
FriendOps ==
    {"f+f", "f-f", "f*f", "f/f", "f+s", "f-s", "f*s", "f/s",
     "s+f", "s-f", "s*f", "s/f"}

\* the operator returns the Fraction v
FriendReturns(op, s, v) ==
    /\ ret' = Call(op, "a", DefaultFraction, DefaultFraction, "ok")
    /\ err' = "none"
    /\ bin' = [s |-> s, val |-> v]
    /\ UNCHANGED <<a, b, crashed, cf>>

\* the compound operator inside divides by zero: a trap, or an arbitrary
\* numerator over the denominator 0
FriendUndefined(op, s) ==
    /\ ret' = Call(op, "a", DefaultFraction, DefaultFraction, "undefined")
    /\ err' = "none"
    /\ UNCHANGED <<a, b, cf>>
    /\ \/ /\ crashed' = TRUE
          /\ bin' = [s |-> s, val |-> DefaultFraction]
       \/ /\ crashed' = FALSE
          /\ \E v \in [n : T, d : {0}] : bin' = [s |-> s, val |-> v]

\* a + b
PlusFractions ==
    /\ ~crashed
    /\ IF AddSubDivZero(a, b)
       THEN FriendUndefined("f+f", NoScalar)
       ELSE /\ PlusEqFits(a, b)
            /\ FriendReturns("f+f", NoScalar, OperatorPlus(a, b))

\* a - b
MinusFractions ==
    /\ ~crashed
    /\ IF AddSubDivZero(a, b)
       THEN FriendUndefined("f-f", NoScalar)
       ELSE /\ MinusEqFits(a, b)
            /\ FriendReturns("f-f", NoScalar, OperatorMinus(a, b))

\* a * b
TimesFractions ==
    /\ ~crashed
    /\ MulFits(a, b)
    /\ FriendReturns("f*f", NoScalar, OperatorTimes(a, b))

\* a / b
DivFractions ==
    /\ ~crashed
    /\ DivFits(a, b)
    /\ FriendReturns("f/f", NoScalar, OperatorDiv(a, b))

\* a + s
FractionPlusFloat(s) ==
    /\ ~crashed
    /\ ToFractionReturns(s)
    /\ LET tOther == ToFraction(s)
       IN  IF AddSubDivZero(a, tOther)
           THEN FriendUndefined("f+s", s)
           ELSE /\ PlusEqFits(a, tOther)
                /\ FriendReturns("f+s", s, OperatorPlusFloat(a, s))

\* a - s
FractionMinusFloat(s) ==
    /\ ~crashed
    /\ ToFractionReturns(s)
    /\ LET tOther == ToFraction(s)
       IN  IF AddSubDivZero(a, tOther)
           THEN FriendUndefined("f-s", s)
           ELSE /\ MinusEqFits(a, tOther)
                /\ FriendReturns("f-s", s, OperatorMinusFloat(a, s))

\* a * s
FractionTimesFloat(s) ==
    /\ ~crashed
    /\ ToFractionReturns(s)
    /\ LET tOther == ToFraction(s)
       IN  /\ MulFits(a, tOther)
           /\ FriendReturns("f*s", s, OperatorTimesFloat(a, s))

\* a / s
FractionDivFloat(s) ==
    /\ ~crashed
    /\ ToFractionReturns(s)
    /\ LET tOther == ToFraction(s)
       IN  /\ DivFits(a, tOther)
           /\ FriendReturns("f/s", s, OperatorDivFloat(a, s))

\* s + a
FloatPlusFraction(s) ==
    /\ ~crashed
    /\ ToFractionReturns(s)
    /\ LET tOther == ToFraction(s)
       IN  IF AddSubDivZero(a, tOther)
           THEN FriendUndefined("s+f", s)
           ELSE /\ PlusEqFits(a, tOther)
                /\ FriendReturns("s+f", s, FloatPlusOperator(s, a))

\* s - a
FloatMinusFraction(s) ==
    /\ ~crashed
    /\ ToFractionReturns(s)
    /\ LET tOther == ToFraction(s)
       IN  IF AddSubDivZero(tOther, a)
           THEN FriendUndefined("s-f", s)
           ELSE /\ MinusEqFits(tOther, a)
                /\ FriendReturns("s-f", s, FloatMinusOperator(s, a))

\* s * a
FloatTimesFraction(s) ==
    /\ ~crashed
    /\ ToFractionReturns(s)
    /\ LET tOther == ToFraction(s)
       IN  /\ MulFits(a, tOther)
           /\ FriendReturns("s*f", s, FloatTimesOperator(s, a))

\* s / a
FloatDivFraction(s) ==
    /\ ~crashed
    /\ ToFractionReturns(s)
    /\ LET tOther == ToFraction(s)
       IN  /\ DivFits(tOther, a)
           /\ FriendReturns("s/f", s, FloatDivOperator(s, a))

\* a holds any Fraction the constructor can leave, b any Fraction the
\* constructor and b /= 0 can leave
InitOps ==
    /\ a \in [n : InputVals, d : InputVals \ {0}]
    /\ b \in [n : InputVals, d : InputVals]
    /\ ret = NoCall
    /\ err = "none"
    /\ crashed = FALSE
    /\ cf = IdleFrame
    /\ bin = IdleBin

\* one operator call per behaviour
NextOps ==
    \/ ret.op = "none" /\ PlusFractions
    \/ ret.op = "none" /\ MinusFractions
    \/ ret.op = "none" /\ TimesFractions
    \/ ret.op = "none" /\ DivFractions
    \/ ret.op = "none" /\ \E s \in Scalars : FractionPlusFloat(s)
    \/ ret.op = "none" /\ \E s \in Scalars : FractionMinusFloat(s)
    \/ ret.op = "none" /\ \E s \in Scalars : FractionTimesFloat(s)
    \/ ret.op = "none" /\ \E s \in Scalars : FractionDivFloat(s)
    \/ ret.op = "none" /\ \E s \in Scalars : FloatPlusFraction(s)
    \/ ret.op = "none" /\ \E s \in Scalars : FloatMinusFraction(s)
    \/ ret.op = "none" /\ \E s \in Scalars : FloatTimesFraction(s)
    \/ ret.op = "none" /\ \E s \in Scalars : FloatDivFraction(s)

SpecOps == InitOps /\ [][NextOps]_vars

(***************************************************************************)
(* Properties of the Fraction objects (specification Spec).                *)
(***************************************************************************)

\* C1: after any sequence of successful constructions, assignments, compound
\* operators and simplify() calls every Fraction has a non-zero denominator.
\* Stated as the induction step: a call that returns normally on objects
\* whose denominators are non-zero leaves the denominators non-zero.
C1_DenominatorStaysNonZero ==
    [][(a.d # 0 /\ b.d # 0 /\ ret'.res = "ok") => (a'.d # 0 /\ b'.d # 0)]_vars

\* C2: Fraction(n, d) throws invalid_argument exactly when d = 0, and then no
\* object is assigned; otherwise the object holds numerator n and denominator
\* d; Fraction(n) holds n/1.
C2_ConstructorContract ==
    [][ret'.op \in {"Fraction", "Fraction1"} =>
         /\ (ret'.res = "throw") <=> (ret'.arg.d = 0)
         /\ (ret'.res = "throw") <=> (err' = "invalid_argument")
         /\ ret'.res = "throw" => (a' = a /\ b' = b)
         /\ ret'.res # "throw" =>
              /\ ret'.res = "ok"
              /\ (IF ret'.rcv = "a" THEN a' ELSE b').n = ret'.arg.n
              /\ (IF ret'.rcv = "a" THEN a' ELSE b').d = ret'.arg.d
              /\ (IF ret'.rcv = "a" THEN b' = b ELSE a' = a)
         /\ ret'.op = "Fraction1" =>
              /\ ret'.res = "ok"
              /\ (IF ret'.rcv = "a" THEN a' ELSE b').d = 1
    ]_vars

\* C2 witness: a was constructed with a negative denominator, then the
\* construction of b with denominator 0 threw and left both objects alone.
C2_Witness ==
    /\ ret.op = "Fraction" /\ ret.rcv = "b" /\ ret.res = "throw"
    /\ ret.arg.d = 0 /\ err = "invalid_argument"
    /\ a = Frac(2, -1) /\ b = Frac(1, 2)

\* the greatest common divisor of |x| and |y|, by Euclid
RECURSIVE MathGcd(_, _)
MathGcd(x, y) == IF y = 0 THEN Abs(x) ELSE MathGcd(y, Abs(x) % Abs(y))

\* the least common multiple of |x| and |y|, for x # 0 and y # 0
MathLcm(x, y) == Abs(x * y) \div MathGcd(x, y)

\* x / y for y a divisor of x
ExactDiv(x, y) == CHOOSE k \in -Abs(x)..Abs(x) : k * y = x

\* the receiver the claim describes after x += y (sgn = 1) or x -= y (sgn = -1)
ExpectedAddSub(x, y, sgn) ==
    IF x.d = y.d
    THEN Frac(x.n + sgn * y.n, x.d)
    ELSE LET L == MathLcm(x.d, y.d)
         IN  Frac(x.n * ExactDiv(L, x.d) + sgn * y.n * ExactDiv(L, y.d), L)

\* r holds exactly the rational x + sgn * y
IsRationalSum(r, x, y, sgn) ==
    /\ r.d # 0
    /\ r.n * (x.d * y.d) = (x.n * y.d + sgn * y.n * x.d) * r.d

\* C5: for a and b with non-zero denominators of any sign, a += b (a -= b)
\* keeps the denominator and adds (subtracts) the numerators when the
\* denominators are equal, and otherwise leaves the least common multiple L
\* of the denominators and the numerator a.n * (L / a.d) +- b.n * (L / b.d),
\* so that the receiver is exactly the rational sum (difference).
C5_AddSubExact ==
    /\ (ret.op = "+=" /\ ret.res = "ok" /\ ret.pre.d # 0 /\ b.d # 0) =>
          /\ a = ExpectedAddSub(ret.pre, b, 1)
          /\ IsRationalSum(a, ret.pre, b, 1)
    /\ (ret.op = "-=" /\ ret.res = "ok" /\ ret.pre.d # 0 /\ b.d # 0) =>
          /\ a = ExpectedAddSub(ret.pre, b, -1)
          /\ IsRationalSum(a, ret.pre, b, -1)

\* C6: for n/d with n # 0 and d # 0 of any sign, simplify() leaves n/g over
\* d/g with g the greatest common divisor of n and d: lowest terms, and the
\* same rational value.
C6_SimplifyLowestTerms ==
    (ret.op = "simplify" /\ ret.pre.n # 0 /\ ret.pre.d # 0) =>
        /\ ret.res = "ok"
        /\ a.n = ExactDiv(ret.pre.n, MathGcd(ret.pre.n, ret.pre.d))
        /\ a.d = ExactDiv(ret.pre.d, MathGcd(ret.pre.n, ret.pre.d))
        /\ MathGcd(a.n, a.d) = 1
        /\ a.n * ret.pre.d = ret.pre.n * a.d

\* C7: simplify() is idempotent: called on what simplify() left of a Fraction
\* with non-zero numerator and denominator, it changes nothing.
C7_SimplifyIdempotent ==
    [][(/\ ret.op = "simplify" /\ ret.res = "ok"
        /\ ret.pre.n # 0 /\ ret.pre.d # 0
        /\ ret'.op = "simplify") =>
           (ret'.res = "ok" /\ a' = a)]_vars

\* C8: simplify() on 0/d with d # 0 divides by no zero and leaves 0/1.
C8_SimplifyZeroNumerator ==
    [][(ret'.op = "simplify" /\ a.n = 0 /\ a.d # 0) =>
           (ret'.res = "ok" /\ ~crashed' /\ a' = Frac(0, 1))]_vars

\* C9: a == b is true exactly when the numerators are equal and the
\* denominators are equal; so 1/2 == 2/4 is false, and the two are equal
\* once simplify() has been applied to both.
C9_StructuralEquality ==
    /\ ret.op = "==" =>
          (ret.res = "true" <=> (a.n = b.n /\ a.d = b.d))
    /\ (ret.op = "==" /\ a = Frac(1, 2) /\ b = Frac(2, 4)) =>
          /\ ret.res = "false"
          /\ ~SimplifyDivZero(a) /\ ~SimplifyDivZero(b)
          /\ OperatorEq(Simplified(a), Simplified(b))

C9_Witness ==
    /\ ret.op = "==" /\ ret.res = "false"
    /\ a = Frac(1, 2) /\ b = Frac(2, 4)
    /\ Simplified(b) = Frac(1, 2)

\* the order of the rationals x.n/x.d and y.n/y.d, for x.d # 0 and y.d # 0
RatOrd(x, y) ==
    LET s == (x.n * y.d - y.n * x.d) * (x.d * y.d)
    IN  IF s < 0 THEN "less" ELSE IF s > 0 THEN "greater" ELSE "equal"

\* C10: a <=> b is equal when either denominator is 0, and otherwise orders
\* a and b exactly as the rationals a.n/a.d and b.n/b.d are ordered, for any
\* signs of numerators and denominators.
C10_OrdersByRationalValue ==
    ret.op = "<=>" =>
        ret.res = (IF a.d = 0 \/ b.d = 0 THEN "equal" ELSE RatOrd(a, b))

(***************************************************************************)
(* Properties of to_Fraction (specification SpecConv).                     *)
(***************************************************************************)

\* the partial quotients of the continued fraction of p / q, by Euclid
RECURSIVE CFTerms(_, _)
CFTerms(p, q) ==
    IF q = 0 THEN <<>> ELSE <<p \div q>> \o CFTerms(q, p % q)

\* the value <<numerator, denominator>> of the continued fraction
\* [t1; t2, ..., tn] = t1 + 1 / [t2; ..., tn]
RECURSIVE CFValue(_)
CFValue(ts) ==
    IF Len(ts) = 1
    THEN <<ts[1], 1>>
    ELSE LET r == CFValue(Tail(ts))
         IN  <<ts[1] * r[1] + r[2], r[1]>>

\* the i-th convergent of p / q
Convergent(p, q, i) == CFValue(SubSeq(CFTerms(p, q), 1, i))

\* | c - p/q | < (p/q) * (en/ed), for the fraction c = <<n, d>> with d > 0
WithinTolerance(c, p, q, en, ed) ==
    Abs(c[1] * q - p * c[2]) * ed < p * c[2] * en

\* the Fraction r is sign * (the first convergent of p/q within tolerance)
FirstConvergentWithin(r, sign, p, q, en, ed) ==
    \E i \in 1..Len(CFTerms(p, q)) :
       /\ r = Frac(sign * Convergent(p, q, i)[1], Convergent(p, q, i)[2])
       /\ WithinTolerance(Convergent(p, q, i), p, q, en, ed)
       /\ \A j \in 1..(i - 1) :
             ~WithinTolerance(Convergent(p, q, j), p, q, en, ed)

ResultContract ==
    /\ ret.op = "to_Fraction" /\ ret.res = "ok"
    /\ a.d > 0
    /\ WithinTolerance(<<Abs(a.n), a.d>>, cf.p, cf.q, cf.en, cf.ed)
    /\ cf.sign * a.n >= 0
    /\ FirstConvergentWithin(a, cf.sign, cf.p, cf.q, cf.en, cf.ed)

C4_NonPositiveToleranceThrows ==
    (cf.pc # "idle" /\ cf.en <= 0) =>
        /\ cf.pc = "threw"
        /\ err = "invalid_argument"
        /\ ret.op = "to_Fraction" /\ ret.res = "throw"
        /\ cf.it = 0
        /\ a = DefaultFraction

\* C4 witness: to_Fraction(0.5, -1.0), a value with |v| < |eps|, has thrown
C4_Witness ==
    /\ cf.pc = "threw" /\ err = "invalid_argument"
    /\ cf.p = 1 /\ cf.q = 2 /\ cf.en = -1 /\ cf.ed = 1

(***************************************************************************)
(* Properties of operator*= and operator/= (specification Spec).           *)
(***************************************************************************)

\* C11: for a and b held in distinct objects, a *= b leaves a with numerator
\* a.n * b.n and denominator a.d * b.d, and a /= b leaves a with numerator
\* a.n * b.d and denominator a.d * b.n, with no simplification and with b
\* unchanged; 3/4 * 2/5 is 6/20 and 3/4 / 2/5 is 15/8.
C11_MulDivMemberwise ==
    [][/\ (ret'.op = "*=" /\ ret'.rcv = "a") =>
              /\ ret'.res = "ok"
              /\ a' = Frac(a.n * b.n, a.d * b.d)
              /\ b' = b
       /\ (ret'.op = "/=" /\ ret'.rcv = "a") =>
              /\ ret'.res = "ok"
              /\ a' = Frac(a.n * b.d, a.d * b.n)
              /\ b' = b
       /\ ret'.op = "*=" => TimesEq(Frac(3, 4), Frac(2, 5)) = Frac(6, 20)
       /\ ret'.op = "/=" => DivEq(Frac(3, 4), Frac(2, 5)) = Frac(15, 8)]_vars

C11_Witness ==
    /\ ret.op = "*=" /\ ret.rcv = "a" /\ ret.res = "ok"
    /\ ret.pre = Frac(1, 2) /\ b = Frac(2, 2)
    /\ a = Frac(2, 4)

(***************************************************************************)
(* Properties of the compound operators under aliasing (specification      *)
(* SpecAlias).                                                             *)
(***************************************************************************)

\* C14: for a with non-zero numerator and denominator, each of a += a,
\* a -= a, a *= a and a /= a leaves a as the operator leaves it when the
\* operand is an independent copy of a's value; a /= a leaves numerator
\* a.n * a.d and denominator a.d * a.n.
C14_AliasingInsensitive ==
    [][(ret'.rcv = "a" /\ a.n # 0 /\ a.d # 0) =>
          /\ ret'.op = "+=self" => (ret'.res = "ok" /\ a' = PlusEq(a, a))
          /\ ret'.op = "-=self" => (ret'.res = "ok" /\ a' = MinusEq(a, a))
          /\ ret'.op = "*=self" => (ret'.res = "ok" /\ a' = TimesEq(a, a))
          /\ ret'.op = "/=self" =>
                /\ ret'.res = "ok"
                /\ a' = DivEq(a, a)
                /\ a' = Frac(a.n * a.d, a.d * a.n)]_vars

(***************************************************************************)
(* Termination of to_Fraction (specification SpecConv).                    *)
(***************************************************************************)

\* C13: for every rational value and every tolerance > 0 the loop of
\* to_Fraction returns no later than the pass whose convergent h1 / k1 is
\* the value itself, the pass on which x - a becomes 0: no pass is entered
\* with the infinite x that 1 / (x - a) then yields, and the loop never
\* runs for ever.  A value with |v| < eps returns 0/1 before the loop.
C13_LoopTerminates ==
    /\ cf.pc # "diverged"
    /\ (cf.pc = "loop" /\ cf.it > 0) =>
          /\ cf.xd # 0
          /\ cf.h1 * cf.q # cf.p * cf.k1
    /\ (cf.pc \in {"loop", "done", "diverged"}
          /\ NearZero(cf.sign, cf.p, cf.q, cf.en, cf.ed)) =>
          (cf.pc = "done" /\ cf.it = 0 /\ a = Frac(0, 1))

(***************************************************************************)
(* Properties of the non-mutating operators (specification SpecOps).       *)
(***************************************************************************)

\* C12: every non-mutating operator returns what the compound operator
\* leaves in a copy of the left operand and changes neither operand:
\* a op b is copy(a) op= b; a op s is copy(a) op= to_Fraction(s); s - a and
\* s / a are to_Fraction(s) -= a and to_Fraction(s) /= a, while s + a and
\* s * a are copy(a) += s and copy(a) *= s; 0.75 - 2/5 is 7/20 and
\* 0.75 / (2/5) is 15/8.
C12_FriendOperators ==
    [][/\ ret'.op \in FriendOps =>
            /\ a' = a /\ b' = b
            /\ ret'.res = "ok" =>
                 LET s == bin'.s
                     v == bin'.val
                 IN  /\ ret'.op = "f+f" => v = PlusEq(a, b)
                     /\ ret'.op = "f-f" => v = MinusEq(a, b)
                     /\ ret'.op = "f*f" => v = TimesEq(a, b)
                     /\ ret'.op = "f/f" => v = DivEq(a, b)
                     /\ ret'.op = "f+s" => v = PlusEq(a, ToFraction(s))
                     /\ ret'.op = "f-s" => v = MinusEq(a, ToFraction(s))
                     /\ ret'.op = "f*s" => v = TimesEq(a, ToFraction(s))
                     /\ ret'.op = "f/s" => v = DivEq(a, ToFraction(s))
                     /\ ret'.op = "s+f" => v = PlusEq(a, ToFraction(s))
                     /\ ret'.op = "s-f" => v = MinusEq(ToFraction(s), a)
                     /\ ret'.op = "s*f" => v = TimesEq(a, ToFraction(s))
                     /\ ret'.op = "s/f" => v = DivEq(ToFraction(s), a)
       /\ ret'.op = "s-f" =>
            FloatMinusOperator([sign |-> 1, p |-> 3, q |-> 4], Frac(2, 5)) = Frac(7, 20)
       /\ ret'.op = "s/f" =>
            FloatDivOperator([sign |-> 1, p |-> 3, q |-> 4], Frac(2, 5)) = Frac(15, 8)]_vars

C12_Witness ==
    /\ ret.op = "s-f" /\ ret.res = "ok"
    /\ bin.s = [sign |-> 1, p |-> 1, q |-> 2]
    /\ a = Frac(1, 1)
    /\ bin.val = Frac(-1, 2)

====
